---- MODULE Spec2Model ----
(***************************************************************************)
(* Model of the Limitly Next.js SDK: the HTTP client (HttpClient, the      *)
(* "request executor") and the two request-gating adapters of the Limitly  *)
(* class (createMiddleware and withRateLimit).                             *)
(*                                                                         *)
(* JavaScript values are records tagged by the field t: undefined, null,   *)
(* string, number, boolean and object.  An object is a record whose other  *)
(* fields are its properties; an instance of a class carries the field     *)
(* class.  Reading a property of null or undefined raises a TypeError, as  *)
(* in JavaScript; reading an absent property yields undefined.             *)
(***************************************************************************)
EXTENDS Integers, Sequences, FiniteSets, TLC

(***************************************************************************)
(* JavaScript values                                                       *)
(***************************************************************************)
Undefined == [t |-> "undefined"]
Null == [t |-> "null"]
Str(s) == [t |-> "string", v |-> s]
Num(n) == [t |-> "number", v |-> n]
Bool(b) == [t |-> "boolean", v |-> b]
EmptyObject == [t |-> "object"]

Nullish(v) == v.t \in {"undefined", "null"}

\* JavaScript truthiness (the operand test of ||, && and if)
Truthy(v) ==
  CASE v.t = "undefined" -> FALSE
    [] v.t = "null" -> FALSE
    [] v.t = "string" -> v.v # ""
    [] v.t = "number" -> v.v # 0
    [] v.t = "boolean" -> v.v
    [] OTHER -> TRUE

\* a || b
OrElse(a, b) == IF Truthy(a) THEN a ELSE b

\* v.k for a v that is neither null nor undefined
Get(v, k) == IF v.t = "object" /\ k \in DOMAIN v THEN v[k] ELSE Undefined

\* v?.k
OptGet(v, k) == IF Nullish(v) THEN Undefined ELSE Get(v, k)

\* `${v}` for the values that are interpolated into messages
ToStr(v) ==
  CASE v.t = "string" -> v.v
    [] v.t = "number" -> ToString(v.v)
    [] v.t = "undefined" -> "undefined"
    [] v.t = "null" -> "null"
    [] OTHER -> "[object Object]"

\* {...a, ...b} on header maps: the later source wins on a key collision
Spread(a, b) ==
  [k \in (DOMAIN a) \cup (DOMAIN b) |-> IF k \in DOMAIN b THEN b[k] ELSE a[k]]

NoHeaders == [k \in {} |-> ""]

\* ...h inside an object literal, for an h that may be undefined
HeadersOf(h) == IF Nullish(h) THEN NoHeaders ELSE h.map

Headers(m) == [t |-> "object", map |-> m]

(***************************************************************************)
(* Errors                                                                  *)
(***************************************************************************)
\* new LimitlyError(message, statusCode, response)
LimitlyError(message, statusCode, response) ==
  [t |-> "object", class |-> "LimitlyError", message |-> message,
   statusCode |-> statusCode, response |-> response]

\* the TypeError the runtime raises on a property read of null or undefined
TypeError(property) ==
  [t |-> "object", class |-> "TypeError",
   message |-> Str("Cannot read properties of nullish (reading '" \o property \o "')")]

\* error instanceof LimitlyError
IsLimitlyError(error) ==
  error.t = "object" /\ "class" \in DOMAIN error /\ error.class = "LimitlyError"

(***************************************************************************)
(* Program constants                                                       *)
(***************************************************************************)
DefaultBaseUrl == "https://xfkyofkqbukqtxcuapvf.supabase.co/functions/v1"
DefaultTimeout == 30000

(***************************************************************************)
(* Inputs of the model                                                     *)
(***************************************************************************)
\* credentials given to the constructor
ApiKeys == {"test_api_key", "other_key"}

\* config.timeout and requestOptions.timeout, as the caller may give them
ConfigTimeouts == {Undefined, Num(0), Num(5000)}
OptionTimeouts == {Undefined, Num(0), Num(10000)}

ConfigBaseUrls == {Undefined, Str("https://api.test")}

\* the constructor's argument (LimitlyConfig)
Configs ==
  {[t |-> "object", apiKey |-> Str(k), baseUrl |-> b, timeout |-> tm] :
     k \in ApiKeys, b \in ConfigBaseUrls, tm \in ConfigTimeouts}
  \cup
  {[t |-> "object", apiKey |-> Str("test_api_key"), baseUrl |-> b, timeout |-> tm,
    cache |-> Bool(TRUE), revalidate |-> Num(60)] :
     b \in ConfigBaseUrls, tm \in ConfigTimeouts}

Endpoints == {"/keys", "/plans/p1"}

\* request bodies of post and put
RequestBodies == {Undefined, [t |-> "object", name |-> Str("n")]}

\* requestOptions.headers
OptionHeaders ==
  {Undefined,
   Headers(NoHeaders),
   Headers([k \in {"Content-Type"} |-> "text/plain"]),
   Headers([k \in {"X-Trace"} |-> "t1"]),
   Headers([k \in {"Authorization"} |-> "Bearer intruder"]),
   Headers([k \in {"Authorization", "X-Trace"} |->
              IF k = "X-Trace" THEN "t1" ELSE "Basic abc"])}

\* requestOptions
RequestOptionsSet ==
  {Undefined} \cup
  {[t |-> "object", timeout |-> tm, headers |-> h] :
     tm \in OptionTimeouts, h \in OptionHeaders}
  \cup
  {[t |-> "object", cache |-> Bool(TRUE), revalidate |-> Num(3600)],
   [t |-> "object", cache |-> Bool(FALSE)],
   [t |-> "object", cache |-> Bool(TRUE), revalidate |-> Num(3600),
    timeout |-> Num(10000)]}

(***************************************************************************)
(* HttpClient                                                              *)
(***************************************************************************)
\* constructor(config)
HttpClient(config) ==
  [apiKey |-> config.apiKey.v,
   baseUrl |-> OrElse(config.baseUrl, Str(DefaultBaseUrl)).v,
   timeout |-> OrElse(config.timeout, Num(DefaultTimeout)).v]

\* requestHeaders with the credential sent bare, without the Bearer scheme
requestHeadersBareKey(self, options, requestOptions) ==
  Spread(Spread([k \in {"Authorization", "Content-Type"} |->
                   IF k = "Authorization" THEN self.apiKey
                   ELSE "application/json"],
                HeadersOf(Get(options, "headers"))),
         HeadersOf(OptGet(requestOptions, "headers")))

\* requestHeaders with the defaults spread last, so that the defaults win
requestHeadersDefaultsLast(self, options, requestOptions) ==
  Spread(Spread(HeadersOf(Get(options, "headers")),
                HeadersOf(OptGet(requestOptions, "headers"))),
         [k \in {"Authorization", "Content-Type"} |->
            IF k = "Authorization" THEN "Bearer " \o self.apiKey
            ELSE "application/json"])

\* the headers of the outbound call (the object literal at headers:)
requestHeaders(self, options, requestOptions) ==
  Spread(Spread([k \in {"Authorization", "Content-Type"} |->
                   IF k = "Authorization" THEN "Bearer " \o self.apiKey
                   ELSE "application/json"],
                HeadersOf(Get(options, "headers"))),
         HeadersOf(OptGet(requestOptions, "headers")))

\* the timeout of the outbound call
requestTimeout(self, requestOptions) ==
  OrElse(OptGet(requestOptions, "timeout"), Num(self.timeout)).v

\* the url and the requestConfig handed to axios
requestConfig(self, endpoint, options, requestOptions) ==
  [url |-> self.baseUrl \o endpoint,
   method |-> options.method,
   data |-> Get(options, "data"),
   headers |-> requestHeaders(self, options, requestOptions),
   timeout |-> requestTimeout(self, requestOptions)]

\* onFulfilled returning the whole AxiosResponse instead of its data
onFulfilledWholeResponse(response) ==
  [kind |-> "returned", value |-> response]

\* the try block after axios resolved: return response.data
onFulfilled(response) ==
  [kind |-> "returned", value |-> Get(response, "data")]

\* the classification of a caught error that is not a LimitlyError
wrapError(error) ==
  IF Nullish(error) THEN TypeError("response")
  ELSE IF Truthy(Get(error, "response")) THEN
    LET response == Get(error, "response")
        data == Get(response, "data")
    IN IF Nullish(data) THEN TypeError("error")
       ELSE LimitlyError(
              Str(ToStr(OrElse(Get(data, "error"),
                    Str("HTTP " \o ToStr(Get(response, "status")) \o ": "
                          \o ToStr(Get(response, "statusText")))))),
              Get(response, "status"),
              data)
  ELSE IF Truthy(Get(error, "request")) THEN
    LimitlyError(Str("Network error: " \o ToStr(Get(error, "message"))),
                 Num(0),
                 [t |-> "object", originalError |-> Get(error, "message")])
  ELSE LimitlyError(Str("Unknown error occurred"), Num(0), Undefined)

\* onRejected without the instanceof test: every caught error is wrapped
onRejectedAlwaysWrap(error) == wrapError(error)

\* the catch block: the value makeRequest throws for a caught error
onRejected(error) ==
  IF IsLimitlyError(error) THEN error ELSE wrapError(error)

(***************************************************************************)
(* The transport (axios): what one outbound call can settle with           *)
(***************************************************************************)
\* bodies the remote side can answer with
ResponseBodies ==
  {Undefined, Null, Str(""),
   [t |-> "object", success |-> Bool(TRUE)],
   [t |-> "object", success |-> Bool(FALSE),
    details |-> [t |-> "object", current_usage |-> Num(100), limit |-> Num(100)]],
   [t |-> "object", success |-> Bool(FALSE), error |-> Str("Invalid API key")],
   [t |-> "object", error |-> Str("")]}

\* the AxiosResponse of a resolved call
Responses ==
  {[t |-> "object", status |-> Num(200), statusText |-> Str("OK"), data |-> b] :
     b \in ResponseBodies}

\* the response carried by a rejection
ErrorResponses ==
  {[t |-> "object", status |-> Num(401), statusText |-> Str("Unauthorized"), data |-> b] :
     b \in ResponseBodies}
  \cup
  {[t |-> "object", status |-> Num(500), statusText |-> Str("Internal Server Error"),
    data |-> b] : b \in ResponseBodies}
  \cup
  {[t |-> "object", status |-> Num(502), statusText |-> Str("Bad Gateway")]}

\* errors that are already normalized when the catch block sees them
UpstreamLimitlyErrors ==
  {LimitlyError(Str("Invalid API key"), Num(401),
                [t |-> "object", error |-> Str("Invalid API key")]),
   LimitlyError(Str("Network error: timeout"), Num(0),
                [t |-> "object", originalError |-> Str("timeout")]),
   LimitlyError(Str("Unknown error occurred"), Num(0), Undefined),
   [LimitlyError(Str("upstream"), Num(429), Undefined) EXCEPT
      !.response = [t |-> "object", status |-> Num(503),
                    statusText |-> Str("Service Unavailable"),
                    data |-> [t |-> "object", error |-> Str("inner")]]],
   [t |-> "object", class |-> "LimitlyError", message |-> Str("upstream"),
    statusCode |-> Num(429), response |-> Undefined, request |-> EmptyObject]}

\* the values a call can reject with
Failures ==
  {Null, Undefined, Str("boom")}
  \cup {[t |-> "object", response |-> r] : r \in ErrorResponses}
  \cup {[t |-> "object", message |-> Str("Request failed"), request |-> EmptyObject,
         response |-> r] : r \in ErrorResponses}
  \cup {[t |-> "object", message |-> Str("timeout"), request |-> EmptyObject],
        [t |-> "object", request |-> EmptyObject],
        [t |-> "object", message |-> Str("bad config")],
        EmptyObject}
  \cup UpstreamLimitlyErrors

(***************************************************************************)
(* State                                                                   *)
(***************************************************************************)
VARIABLES
  config,    \* the argument the client was constructed with
  client,    \* the HttpClient: apiKey, baseUrl, timeout
  pc,        \* position of the executor invocation: idle, awaiting, returned, thrown
  args,      \* the arguments of the invocation in progress
  sent,      \* the outbound calls issued by the invocation, in order
  settled,   \* how the transport settled the call
  result,    \* the value the invocation returned or threw
  gpc,       \* position of the gate invocation: idle, validating, done
  gargs,     \* the adapter invoked and its arguments
  trace,     \* the calls the gate made to caller-supplied functions, in order
  gout,      \* how the promise returned by the gate settled
  inflight   \* the locals of the invocations in flight concurrently, per slot

execVars == <<pc, args, sent, settled, result>>
gateVars == <<gpc, gargs, trace, gout>>
vars == <<config, client, pc, args, sent, settled, result, gpc, gargs, trace, gout, inflight>>

NoArgs == [verb |-> "none"]
NotSettled == [kind |-> "pending"]
NoGate == [adapter |-> "none"]

\* the invocations that may be in flight at once
MaxInFlight == 2

Slots == 1..MaxInFlight

\* the locals of a slot without an invocation
IdleCall ==
  [kind |-> "none", gate |-> NoGate, pc |-> "idle", args |-> NoArgs, sent |-> <<>>,
   settled |-> NotSettled, result |-> Undefined, trace |-> <<>>, out |-> NotSettled]

\* the state after new Limitly(cfg), for a cfg of the set cfgs
Constructed(cfgs) ==
  /\ config \in cfgs
  /\ client = HttpClient(config)
  /\ pc = "idle"
  /\ args = NoArgs
  /\ sent = <<>>
  /\ settled = NotSettled
  /\ result = Undefined
  /\ gpc = "idle"
  /\ gargs = NoGate
  /\ trace = <<>>
  /\ gout = NotSettled
  /\ inflight = [i \in Slots |-> IdleCall]

Init == Constructed(Configs)

\* makeRequest answering from a cache, without a call, when the cache flag is set
makeRequestCached(verb, endpoint, options, requestOptions) ==
  /\ pc = "idle"
  /\ pc' = "awaiting"
  /\ args' = [verb |-> verb, endpoint |-> endpoint, options |-> options,
              requestOptions |-> requestOptions]
  /\ sent' = IF Truthy(OptGet(requestOptions, "cache")) THEN sent
             ELSE Append(sent, requestConfig(client, endpoint, options, requestOptions))
  /\ settled' = NotSettled
  /\ result' = Undefined

\* makeRequest up to its await: build the request and hand it to axios
makeRequest(verb, endpoint, options, requestOptions) ==
  /\ pc = "idle"
  /\ pc' = "awaiting"
  /\ args' = [verb |-> verb, endpoint |-> endpoint, options |-> options,
              requestOptions |-> requestOptions]
  /\ sent' = Append(sent, requestConfig(client, endpoint, options, requestOptions))
  /\ settled' = NotSettled
  /\ result' = Undefined

get(endpoint, requestOptions) ==
  makeRequest("get", endpoint, [t |-> "object", method |-> "GET"], requestOptions)

post(endpoint, body, requestOptions) ==
  makeRequest("post", endpoint,
              [t |-> "object", method |-> "POST", data |-> body], requestOptions)

put(endpoint, body, requestOptions) ==
  makeRequest("put", endpoint,
              [t |-> "object", method |-> "PUT", data |-> body], requestOptions)

delete(endpoint, requestOptions) ==
  makeRequest("delete", endpoint, [t |-> "object", method |-> "DELETE"], requestOptions)

\* axios resolves: makeRequest returns response.data
axiosResolve(response) ==
  /\ pc = "awaiting"
  /\ settled' = [kind |-> "resolve", value |-> response]
  /\ pc' = "returned"
  /\ result' = onFulfilled(response).value
  /\ UNCHANGED <<args, sent>>

\* axiosReject with a retry: the failed call is issued again
axiosRejectRetry(error) ==
  /\ pc = "awaiting"
  /\ Len(sent) < 2
  /\ sent' = Append(sent, sent[Len(sent)])
  /\ UNCHANGED <<pc, args, settled, result>>

\* axios rejects: the catch block of makeRequest throws
axiosReject(error) ==
  /\ pc = "awaiting"
  /\ settled' = [kind |-> "reject", value |-> error]
  /\ pc' = "thrown"
  /\ result' = onRejected(error)
  /\ UNCHANGED <<args, sent>>

\* the caller has consumed the outcome; the client is ready for another call
Finish ==
  /\ pc \in {"returned", "thrown"}
  /\ gpc = "idle"
  /\ pc' = "idle"
  /\ args' = NoArgs
  /\ sent' = <<>>
  /\ settled' = NotSettled
  /\ result' = Undefined

Call ==
  \E e \in Endpoints, ro \in RequestOptionsSet :
    \/ get(e, ro)
    \/ delete(e, ro)
    \/ \E b \in RequestBodies : post(e, b, ro) \/ put(e, b, ro)

\* the guards are repeated ahead of the quantifiers so that an action
\* that is not enabled is not enumerated over its inputs
Next ==
  \/ pc = "idle" /\ Call /\ UNCHANGED <<inflight, config, client, gateVars>>
  \/ pc = "awaiting" /\ (\E r \in Responses : axiosResolve(r))
       /\ UNCHANGED <<inflight, config, client, gateVars>>
  \/ pc = "awaiting" /\ (\E f \in Failures : axiosReject(f))
       /\ UNCHANGED <<inflight, config, client, gateVars>>
  \/ Finish /\ UNCHANGED <<inflight, config, client, gateVars>>

Spec == Init /\ [][Next]_vars

(***************************************************************************)
(* The request gate: values                                                *)
(*                                                                         *)
(* A header value is a string kept as its sequence of pieces, so that      *)
(* replace('Bearer ', '') can be computed: it removes the first occurrence *)
(* of the piece "Bearer ", wherever it stands.                             *)
(***************************************************************************)
MaxHeaderLen == 2

Pieces == {"Bearer ", "bearer ", "k1"}

RECURSIVE Join(_)
Join(ps) == IF ps = <<>> THEN "" ELSE Head(ps) \o Join(Tail(ps))

\* the string made of the pieces ps
HStr(ps) == [t |-> "string", v |-> Join(ps), pieces |-> ps]

RECURSIVE RemoveFirst(_, _)
RemoveFirst(ps, p) ==
  IF ps = <<>> THEN <<>>
  ELSE IF Head(ps) = p THEN Tail(ps)
  ELSE <<Head(ps)>> \o RemoveFirst(Tail(ps), p)

\* h?.replace('Bearer ', '')
replaceBearer(h) ==
  IF Nullish(h) THEN Undefined ELSE HStr(RemoveFirst(h.pieces, "Bearer "))

HeaderValues ==
  UNION {[1..n -> Pieces] : n \in 0..MaxHeaderLen}

\* the values of the custom key header: a key, and the empty value
KeyHeaderValues == {<<"k2">>, <<>>}

\* the headers of an incoming request: the authorization header and a
\* custom key header, each present or not
HeaderMaps ==
  {[k \in {"authorization"} |-> HStr(a)] : a \in HeaderValues}
  \cup {[k \in {"authorization", "x-api-key"} |->
           IF k = "authorization" THEN HStr(a) ELSE HStr(x)] :
          a \in HeaderValues, x \in KeyHeaderValues}
  \cup {NoHeaders}
  \cup {[k \in {"x-api-key"} |-> HStr(x)] : x \in KeyHeaderValues}

\* req.headers?.[name]
headerOf(req, name) ==
  LET headers == Get(req, "headers")
  IN IF Nullish(headers) THEN Undefined
     ELSE IF name \in DOMAIN headers.map THEN headers.map[name] ELSE Undefined

\* request.headers.get(name)
headersGet(request, name) ==
  IF name \in DOMAIN request.headers.map THEN request.headers.map[name] ELSE Null

\* options?.apiKeyHeader || 'authorization'
apiKeyHeaderOf(options) == OrElse(OptGet(options, "apiKeyHeader"), Str("authorization")).v

\* the credential the middleware extracts from req
middlewareApiKey(options, req) ==
  OrElse(replaceBearer(headerOf(req, apiKeyHeaderOf(options))),
         replaceBearer(headerOf(req, "authorization")))

\* the credential withRateLimit extracts from request
withRateLimitApiKey(options, request) ==
  OrElse(replaceBearer(headersGet(request, apiKeyHeaderOf(options))),
         replaceBearer(headersGet(request, "authorization")))

\* a caller-supplied function
Function(name) == [t |-> "function", name |-> name]

\* the error a caller-supplied function raises when it fails
CallbackError(name) ==
  [t |-> "object", class |-> "Error", message |-> Str(name \o " failed")]

\* new Error(message)
Error(message) == [t |-> "object", class |-> "Error", message |-> Str(message)]

\* Response.json(body, {status})
ResponseJson(body, status) ==
  [t |-> "object", class |-> "Response", status |-> status, body |-> body]

\* the value of res.status(code).json(body)
ResJsonResult == [t |-> "object", class |-> "ServerResponse"]

(***************************************************************************)
(* The request gate: inputs                                                *)
(***************************************************************************)
\* the client the gate is checked with
GateConfigs ==
  {[t |-> "object", apiKey |-> Str("test_api_key"), baseUrl |-> Undefined,
    timeout |-> Undefined]}

\* the options of createMiddleware
MiddlewareOptions ==
  {Undefined} \cup
  {[t |-> "object", apiKeyHeader |-> h, onRateLimitExceeded |-> r,
    onValidationError |-> v] :
     h \in {Undefined, Str("x-api-key")},
     r \in {Undefined, Function("onRateLimitExceeded")},
     v \in {Undefined, Function("onValidationError")}}

\* the options of withRateLimit
WithRateLimitOptions ==
  {Undefined} \cup
  {[t |-> "object", apiKeyHeader |-> h, onRateLimitExceeded |-> r] :
     h \in {Undefined, Str("x-api-key")},
     r \in {Undefined, Function("onRateLimitExceeded")}}

\* the req objects handed to the middleware
MiddlewareRequests ==
  {[t |-> "object", headers |-> Headers(m), url |-> u, path |-> Str("/api/users"),
    method |-> Str("GET")] :
     m \in HeaderMaps, u \in {Undefined, Str("/api/users?page=2")}}
  \cup {[t |-> "object", headers |-> Undefined, url |-> Str("/api/users"),
         path |-> Str("/api/users"), method |-> Str("GET")]}

\* a URL string kept as its origin, path and query
Url(origin, pathname, search) ==
  [t |-> "string", v |-> origin \o pathname \o search,
   pieces |-> <<origin, pathname, search>>]

\* new URL(url).pathname
pathname(url) == Str(url.pieces[2])

\* the Request objects handed to the wrapped handler
FetchRequests ==
  {[t |-> "object", class |-> "Request", headers |-> Headers(m),
    url |-> Url("https://app.test", "/api/users", q), method |-> Str("POST")] :
     m \in HeaderMaps, q \in {"", "?page=2"}}

\* the extra positional arguments of the wrapped handler
ExtraArgs ==
  {<<>>,
   <<[t |-> "object", params |-> Str("id7")]>>,
   <<[t |-> "object", params |-> Str("id7")], Str("second")>>}

\* the continuation of the middleware
Continuations == {Undefined, Function("next")}

\* what the route handler answers, and what the override producer answers
HandlerResponse == ResponseJson([t |-> "object", message |-> Str("Success")], 200)
CustomResponse == ResponseJson([t |-> "object", error |-> Str("Custom")], 429)

\* the rejections the validate call of the gate is checked with
GateFailures ==
  {Undefined,
   [t |-> "object", response |->
      [t |-> "object", status |-> Num(401), statusText |-> Str("Unauthorized"),
       data |-> [t |-> "object", error |-> Str("Invalid API key")]]],
   [t |-> "object", response |->
      [t |-> "object", status |-> Num(429), statusText |-> Str("Too Many Requests"),
       data |-> Null]],
   [t |-> "object", message |-> Str("timeout"), request |-> EmptyObject],
   [t |-> "object", message |-> Str("bad config")],
   LimitlyError(Str("upstream"), Num(429), Undefined)}

(***************************************************************************)
(* The request gate: synchronous runs                                      *)
(*                                                                         *)
(* A run is the execution of one block of an adapter between two awaits.   *)
(* It records the calls made to caller-supplied functions (hooks, the      *)
(* response object, the continuation, the handler).  Each such call either *)
(* returns or raises; throwAt is the position, within the block, of the    *)
(* first call that raises (0: none does).                                  *)
(***************************************************************************)
\* the positions at which a call of a block can raise
ThrowPositions == 0..3

Run0 == [trace |-> <<>>, mode |-> "run", val |-> Undefined]

\* a block calls the functions described by calls, one after the other, up
\* to the first that raises
Step(calls, throwAt) ==
  IF throwAt \in 1..Len(calls)
  THEN [trace |-> [k \in 1..throwAt |->
                     IF k = throwAt THEN [calls[k] EXCEPT !.threw = TRUE]
                     ELSE calls[k]],
        mode |-> "thrown",
        val |-> CallbackError(calls[throwAt].op)]
  ELSE [trace |-> calls, mode |-> "run", val |-> Undefined]

\* return v
Return(st, v) == IF st.mode = "run" THEN [st EXCEPT !.mode = "returned", !.val = v] ELSE st

\* throw e
Throw(st, e) == IF st.mode = "run" THEN [st EXCEPT !.mode = "thrown", !.val = e] ELSE st

\* the settlement of the async function whose body ran as st
Settle(st) ==
  IF st.mode = "thrown" THEN [kind |-> "rejected", value |-> st.val]
  ELSE [kind |-> "resolved", value |-> st.val]

Called(op) == [op |-> op, threw |-> FALSE]
ResStatus(code) == [op |-> "res.status", code |-> code, threw |-> FALSE]
ResJson(body) == [op |-> "res.json", body |-> body, threw |-> FALSE]

ApiKeyRequiredBody == [t |-> "object", error |-> Str("API Key required")]
ValidationErrorBody == [t |-> "object", error |-> Str("Validation error")]
RateLimitBody(details) ==
  [t |-> "object", error |-> Str("Rate limit exceeded"), details |-> details]

(***************************************************************************)
(* ValidationModule                                                        *)
(***************************************************************************)
\* validateRequest(data, options)
validateRequest(data, options) == post("/validate", data, options)

\* validate(apiKey, endpoint, method)
validate(apiKey, endpoint, method) ==
  validateRequest([t |-> "object", api_key |-> apiKey, endpoint |-> endpoint,
                   method |-> method],
                  Undefined)

(***************************************************************************)
(* Limitly.createMiddleware                                                *)
(***************************************************************************)
\* the calls to a hook that is called only if the caller supplied it
IfSupplied(hook, call) == IF Truthy(hook) THEN <<call>> ELSE <<>>

\* the try block when no credential was found
mwNoKey(options, req, throwAt) ==
  Return(Step(IfSupplied(OptGet(options, "onValidationError"),
                         [op |-> "onValidationError", threw |-> FALSE,
                          error |-> Error("API Key required")])
              \o <<ResStatus(401), ResJson(ApiKeyRequiredBody)>>,
              throwAt),
         ResJsonResult)

\* mwValidated answering 429 without the details of the outcome
mwValidatedNoDetails(options, next, outcome, res, throwAt) ==
  IF outcome = "thrown" THEN Throw(Run0, res)
  ELSE IF Nullish(res) THEN Throw(Run0, TypeError("success"))
  ELSE IF ~Truthy(Get(res, "success")) THEN
    Return(Step(IfSupplied(OptGet(options, "onRateLimitExceeded"),
                           Called("onRateLimitExceeded"))
                \o <<ResStatus(429), ResJson(RateLimitBody(Undefined))>>,
                throwAt),
           ResJsonResult)
  ELSE
    Return(Step(IfSupplied(next, Called("next")), throwAt), Undefined)

\* the try block after the await of validate, which ended as outcome
\* (returned or thrown) with the value res
mwValidated(options, next, outcome, res, throwAt) ==
  IF outcome = "thrown" THEN Throw(Run0, res)
  ELSE IF Nullish(res) THEN Throw(Run0, TypeError("success"))
  ELSE IF ~Truthy(Get(res, "success")) THEN
    Return(Step(IfSupplied(OptGet(options, "onRateLimitExceeded"),
                           Called("onRateLimitExceeded"))
                \o <<ResStatus(429), ResJson(RateLimitBody(Get(res, "details")))>>,
                throwAt),
           ResJsonResult)
  ELSE
    Return(Step(IfSupplied(next, Called("next")), throwAt), Undefined)

\* the catch block, entered when the try block st raised
mwCatch(st, options, throwAt) ==
  IF st.mode # "thrown" THEN st
  ELSE
    LET c == Return(Step(IfSupplied(OptGet(options, "onValidationError"),
                                    [op |-> "onValidationError", threw |-> FALSE,
                                     error |-> st.val])
                         \o <<ResStatus(500), ResJson(ValidationErrorBody)>>,
                         throwAt),
                    ResJsonResult)
    IN [c EXCEPT !.trace = st.trace \o @]

\* the middleware is called with (req, res, next): it runs up to its await,
\* or to its end when no credential is found
middleware(options, req, next, throwAt, catchThrowAt) ==
  /\ gpc = "idle"
  /\ pc = "idle"
  /\ gargs' = [adapter |-> "middleware", options |-> options, req |-> req,
               next |-> next]
  /\ LET apiKey == middlewareApiKey(options, req)
     IN IF ~Truthy(apiKey)
        THEN LET st == mwCatch(mwNoKey(options, req, throwAt), options, catchThrowAt)
             IN /\ gpc' = "done"
                /\ trace' = st.trace
                /\ gout' = Settle(st)
                /\ UNCHANGED execVars
        ELSE /\ validate(Str(apiKey.v), OrElse(Get(req, "url"), Get(req, "path")),
                         Get(req, "method"))
             /\ gpc' = "validating"
             /\ trace' = <<>>
             /\ gout' = NotSettled

\* the middleware resumes after its await
middlewareResume(throwAt, catchThrowAt) ==
  /\ gpc = "validating"
  /\ gargs.adapter = "middleware"
  /\ pc \in {"returned", "thrown"}
  /\ LET st == mwCatch(mwValidated(gargs.options, gargs.next, pc, result, throwAt),
                       gargs.options, catchThrowAt)
     IN /\ gpc' = "done"
        /\ trace' = trace \o st.trace
        /\ gout' = Settle(st)
  /\ UNCHANGED <<execVars, gargs>>

(***************************************************************************)
(* Limitly.withRateLimit                                                   *)
(***************************************************************************)
\* the promise an async route handler returns
HandlerPromises ==
  {[t |-> "promise", kind |-> "resolved", value |-> HandlerResponse],
   [t |-> "promise", kind |-> "rejected", value |-> CallbackError("handler")]}

\* the call of the override producer: it returns CustomResponse unless it raises
ProducerCall(request) ==
  [op |-> "onRateLimitExceeded", threw |-> FALSE, request |-> request,
   result |-> CustomResponse]

\* the call of the route handler: it returns promise unless it raises
HandlerCall(request, extra, promise) ==
  [op |-> "handler", threw |-> FALSE, request |-> request, args |-> extra,
   result |-> promise]

\* wrlValidated ignoring the override producer
wrlValidatedNoOverride(options, request, extra, outcome, res, throwAt, promise) ==
  IF outcome = "thrown" THEN Throw(Run0, res)
  ELSE IF Nullish(res) THEN Throw(Run0, TypeError("success"))
  ELSE IF ~Truthy(Get(res, "success")) THEN
    Return(Run0, ResponseJson(RateLimitBody(Get(res, "details")), 429))
  ELSE Return(Step(<<HandlerCall(request, extra, promise)>>, throwAt), promise)

\* wrlValidated calling the handler without the extra arguments
wrlValidatedDropArgs(options, request, extra, outcome, res, throwAt, promise) ==
  IF outcome = "thrown" THEN Throw(Run0, res)
  ELSE IF Nullish(res) THEN Throw(Run0, TypeError("success"))
  ELSE IF ~Truthy(Get(res, "success")) THEN
    IF Truthy(OptGet(options, "onRateLimitExceeded"))
    THEN Return(Step(<<ProducerCall(request)>>, throwAt), CustomResponse)
    ELSE Return(Run0, ResponseJson(RateLimitBody(Get(res, "details")), 429))
  ELSE Return(Step(<<HandlerCall(request, <<>>, promise)>>, throwAt), promise)

\* the try block after the await of validate
wrlValidated(options, request, extra, outcome, res, throwAt, promise) ==
  IF outcome = "thrown" THEN Throw(Run0, res)
  ELSE IF Nullish(res) THEN Throw(Run0, TypeError("success"))
  ELSE IF ~Truthy(Get(res, "success")) THEN
    IF Truthy(OptGet(options, "onRateLimitExceeded"))
    THEN Return(Step(<<ProducerCall(request)>>, throwAt), CustomResponse)
    ELSE Return(Run0, ResponseJson(RateLimitBody(Get(res, "details")), 429))
  ELSE Return(Step(<<HandlerCall(request, extra, promise)>>, throwAt), promise)

\* the catch block, entered when the try block st raised
wrlCatch(st) ==
  IF st.mode # "thrown" THEN st
  ELSE [st EXCEPT
          !.trace = Append(@, [op |-> "console.error", threw |-> FALSE,
                               error |-> st.val]),
          !.mode = "returned",
          !.val = ResponseJson(ValidationErrorBody, 500)]

\* the settlement of the wrapped handler: a returned promise is adopted
SettleAdopting(st) ==
  IF st.mode = "returned" /\ st.val.t = "promise"
  THEN [kind |-> st.val.kind, value |-> st.val.value]
  ELSE Settle(st)

\* the wrapped handler is called with (request, ...args)
withRateLimit(options, request, extra) ==
  /\ gpc = "idle"
  /\ pc = "idle"
  /\ gargs' = [adapter |-> "withRateLimit", options |-> options,
               request |-> request, extra |-> extra]
  /\ LET apiKey == withRateLimitApiKey(options, request)
     IN IF ~Truthy(apiKey)
        THEN /\ gpc' = "done"
             /\ trace' = <<>>
             /\ gout' = Settle(Return(Run0, ResponseJson(ApiKeyRequiredBody, 401)))
             /\ UNCHANGED execVars
        ELSE /\ validate(Str(apiKey.v), pathname(request.url), request.method)
             /\ gpc' = "validating"
             /\ trace' = <<>>
             /\ gout' = NotSettled

\* the wrapped handler resumes after its await
withRateLimitResume(throwAt, promise) ==
  /\ gpc = "validating"
  /\ gargs.adapter = "withRateLimit"
  /\ pc \in {"returned", "thrown"}
  /\ LET st == wrlCatch(wrlValidated(gargs.options, gargs.request, gargs.extra,
                                     pc, result, throwAt, promise))
     IN /\ gpc' = "done"
        /\ trace' = trace \o st.trace
        /\ gout' = SettleAdopting(st)
  /\ UNCHANGED <<execVars, gargs>>

\* the host has consumed the outcome of the gate
GateFinish ==
  /\ gpc = "done"
  /\ gpc' = "idle"
  /\ gargs' = NoGate
  /\ trace' = <<>>
  /\ gout' = NotSettled
  /\ pc' = "idle"
  /\ args' = NoArgs
  /\ sent' = <<>>
  /\ settled' = NotSettled
  /\ result' = Undefined

InitGate == Constructed(GateConfigs)

NextGate ==
  \/ gpc = "idle"
       /\ (\E o \in MiddlewareOptions, r \in MiddlewareRequests, n \in Continuations,
              i \in ThrowPositions, j \in ThrowPositions : middleware(o, r, n, i, j))
       /\ UNCHANGED <<inflight, config, client>>
  \/ gpc = "validating" /\ pc # "awaiting"
       /\ (\E i \in ThrowPositions, j \in ThrowPositions : middlewareResume(i, j))
       /\ UNCHANGED <<inflight, config, client>>
  \/ gpc = "idle"
       /\ (\E o \in WithRateLimitOptions, r \in FetchRequests, x \in ExtraArgs :
              withRateLimit(o, r, x))
       /\ UNCHANGED <<inflight, config, client>>
  \/ gpc = "validating" /\ pc # "awaiting"
       /\ (\E i \in 0..1, p \in HandlerPromises : withRateLimitResume(i, p))
       /\ UNCHANGED <<inflight, config, client>>
  \/ pc = "awaiting" /\ (\E r \in Responses : axiosResolve(r))
       /\ UNCHANGED <<inflight, config, client, gateVars>>
  \/ pc = "awaiting" /\ (\E f \in GateFailures : axiosReject(f))
       /\ UNCHANGED <<inflight, config, client, gateVars>>
  \/ GateFinish /\ UNCHANGED <<inflight, config, client>>

SpecGate == InitGate /\ [][NextGate]_vars

(***************************************************************************)
(* The modules of the client: apiKeys, plans, users and validation         *)
(*                                                                         *)
(* Each method is an async function that returns the promise of one call   *)
(* of the HttpClient.                                                      *)
(***************************************************************************)
KeyIds == {Str("key_1"), Str("key_2")}
PlanIds == {Str("plan_1")}
UserIds == {Num(7)}

\* the data given to create, update and createKey
ModuleBodies == {[t |-> "object", name |-> Str("n")]}

\* the options given to a module method
ModuleOptions ==
  {Undefined,
   [t |-> "object", cache |-> Bool(TRUE), revalidate |-> Num(3600)],
   [t |-> "object", timeout |-> Num(10000),
    headers |-> Headers([k \in {"X-Trace"} |-> "t1"])]}

\* the context given to validateWithContext
Contexts == {Undefined, Null, [t |-> "object", userId |-> Str("u1")]}

\* the validation data given to validateRequest and its parts
ValidationKeys == {Str("k1")}
ValidationEndpoints == {Str("/api/users")}
ValidationMethods == {Str("GET")}
ValidationData ==
  {[t |-> "object", api_key |-> k, endpoint |-> e, method |-> m] :
     k \in ValidationKeys, e \in ValidationEndpoints, m \in ValidationMethods}

\* validateWithContext putting the context field in every body
validateWithContextAlways(apiKey, endpoint, method, context, options) ==
  post("/validate",
       [t |-> "object", api_key |-> apiKey, endpoint |-> endpoint,
        method |-> method, context |-> context],
       options)

\* validateWithContext(apiKey, endpoint, method, context, options)
validateWithContext(apiKey, endpoint, method, context, options) ==
  post("/validate",
       IF Truthy(context)
       THEN [t |-> "object", api_key |-> apiKey, endpoint |-> endpoint,
             method |-> method, context |-> context]
       ELSE [t |-> "object", api_key |-> apiKey, endpoint |-> endpoint,
             method |-> method],
       options)

\* ApiKeysModule
apiKeys_list(options) == get("/keys", options)
apiKeys_create(data, options) == post("/keys", data, options)
apiKeys_get(keyId, options) == get("/keys/" \o ToStr(keyId), options)
apiKeys_update(keyId, data, options) == put("/keys/" \o ToStr(keyId), data, options)
apiKeys_delete(keyId, options) == delete("/keys/" \o ToStr(keyId), options)
apiKeys_regenerate(keyId, options) ==
  post("/keys/" \o ToStr(keyId) \o "/regenerate", Undefined, options)
apiKeys_getUsage(keyId, options) == get("/keys/" \o ToStr(keyId) \o "/usage", options)
apiKeys_getRequests(keyId, options) ==
  get("/keys/" \o ToStr(keyId) \o "/requests", options)
apiKeys_listWithUsage(options) == get("/keys/with-usage", options)

\* PlansModule
plans_list(options) == get("/plans", options)
plans_create(data, options) == post("/plans", data, options)
plans_get(planId, options) == get("/plans/" \o ToStr(planId), options)
plans_update(planId, data, options) == put("/plans/" \o ToStr(planId), data, options)
plans_delete(planId, options) == delete("/plans/" \o ToStr(planId), options)
plans_getUsage(planId, options) == get("/plans/" \o ToStr(planId) \o "/usage", options)
plans_getUsers(planId, options) == get("/plans/" \o ToStr(planId) \o "/users", options)
plans_getKeys(planId, options) == get("/plans/" \o ToStr(planId) \o "/keys", options)
plans_listWithUsage(options) == get("/plans/with-usage", options)

\* UsersModule
users_list(options) == get("/users", options)
users_create(data, options) == post("/users", data, options)
users_get(userId, options) == get("/users/" \o ToStr(userId), options)
users_update(userId, data, options) == put("/users/" \o ToStr(userId), data, options)
users_delete(userId, options) == delete("/users/" \o ToStr(userId), options)
users_getUsage(userId, options) == get("/users/" \o ToStr(userId) \o "/usage", options)
users_getKeys(userId, options) == get("/users/" \o ToStr(userId) \o "/keys", options)
users_createKey(userId, data, options) ==
  post("/users/" \o ToStr(userId) \o "/keys", data, options)
users_listWithUsage(options) == get("/users/with-usage", options)

\* the application calls the method of a module with the arguments params;
\* the method runs up to the await of its HttpClient call
Invoke(method, params, call) ==
  /\ call
  /\ gpc' = "calling"
  /\ gargs' = [adapter |-> "module", method |-> method, params |-> params]
  /\ trace' = <<>>
  /\ gout' = NotSettled

\* an async method whose rejection is replaced by a new Error
returnAwaitedWrapped(outcome, value) ==
  IF outcome = "thrown" THEN [kind |-> "rejected", value |-> Error("Request failed")]
  ELSE [kind |-> "resolved", value |-> value]

\* async m() { return this.client.verb(...) }: the promise of the method
\* settles as the promise of the HttpClient call did
returnAwaited(outcome, value) ==
  IF outcome = "thrown" THEN [kind |-> "rejected", value |-> value]
  ELSE [kind |-> "resolved", value |-> value]

\* the HttpClient call of the method has settled and the method with it
ModuleReturn ==
  /\ gpc = "calling"
  /\ pc \in {"returned", "thrown"}
  /\ gpc' = "done"
  /\ gout' = returnAwaited(pc, result)
  /\ UNCHANGED <<execVars, gargs, trace>>

ValidationCall ==
  \/ \E d \in ValidationData, o \in ModuleOptions :
       Invoke("validation.validateRequest", <<d, o>>, validateRequest(d, o))
  \/ \E k \in ValidationKeys, e \in ValidationEndpoints, m \in ValidationMethods :
       Invoke("validation.validate", <<k, e, m>>, validate(k, e, m))
  \/ \E k \in ValidationKeys, e \in ValidationEndpoints, m \in ValidationMethods,
        c \in Contexts, o \in ModuleOptions :
       Invoke("validation.validateWithContext", <<k, e, m, c, o>>,
              validateWithContext(k, e, m, c, o))

ApiKeysCall ==
  \E id \in KeyIds, d \in ModuleBodies, o \in ModuleOptions :
    \/ Invoke("apiKeys.list", <<o>>, apiKeys_list(o))
    \/ Invoke("apiKeys.create", <<d, o>>, apiKeys_create(d, o))
    \/ Invoke("apiKeys.get", <<id, o>>, apiKeys_get(id, o))
    \/ Invoke("apiKeys.update", <<id, d, o>>, apiKeys_update(id, d, o))
    \/ Invoke("apiKeys.delete", <<id, o>>, apiKeys_delete(id, o))
    \/ Invoke("apiKeys.regenerate", <<id, o>>, apiKeys_regenerate(id, o))
    \/ Invoke("apiKeys.getUsage", <<id, o>>, apiKeys_getUsage(id, o))
    \/ Invoke("apiKeys.getRequests", <<id, o>>, apiKeys_getRequests(id, o))
    \/ Invoke("apiKeys.listWithUsage", <<o>>, apiKeys_listWithUsage(o))

PlansCall ==
  \E id \in PlanIds, d \in ModuleBodies, o \in ModuleOptions :
    \/ Invoke("plans.list", <<o>>, plans_list(o))
    \/ Invoke("plans.create", <<d, o>>, plans_create(d, o))
    \/ Invoke("plans.get", <<id, o>>, plans_get(id, o))
    \/ Invoke("plans.update", <<id, d, o>>, plans_update(id, d, o))
    \/ Invoke("plans.delete", <<id, o>>, plans_delete(id, o))
    \/ Invoke("plans.getUsage", <<id, o>>, plans_getUsage(id, o))
    \/ Invoke("plans.getUsers", <<id, o>>, plans_getUsers(id, o))
    \/ Invoke("plans.getKeys", <<id, o>>, plans_getKeys(id, o))
    \/ Invoke("plans.listWithUsage", <<o>>, plans_listWithUsage(o))

UsersCall ==
  \E id \in UserIds, d \in ModuleBodies, o \in ModuleOptions :
    \/ Invoke("users.list", <<o>>, users_list(o))
    \/ Invoke("users.create", <<d, o>>, users_create(d, o))
    \/ Invoke("users.get", <<id, o>>, users_get(id, o))
    \/ Invoke("users.update", <<id, d, o>>, users_update(id, d, o))
    \/ Invoke("users.delete", <<id, o>>, users_delete(id, o))
    \/ Invoke("users.getUsage", <<id, o>>, users_getUsage(id, o))
    \/ Invoke("users.getKeys", <<id, o>>, users_getKeys(id, o))
    \/ Invoke("users.createKey", <<id, d, o>>, users_createKey(id, d, o))
    \/ Invoke("users.listWithUsage", <<o>>, users_listWithUsage(o))

NextModules ==
  \/ gpc = "idle" /\ pc = "idle" /\ ValidationCall /\ UNCHANGED <<inflight, config, client>>
  \/ gpc = "idle" /\ pc = "idle" /\ ApiKeysCall /\ UNCHANGED <<inflight, config, client>>
  \/ gpc = "idle" /\ pc = "idle" /\ PlansCall /\ UNCHANGED <<inflight, config, client>>
  \/ gpc = "idle" /\ pc = "idle" /\ UsersCall /\ UNCHANGED <<inflight, config, client>>
  \/ pc = "awaiting" /\ (\E r \in Responses : axiosResolve(r))
       /\ UNCHANGED <<inflight, config, client, gateVars>>
  \/ pc = "awaiting" /\ (\E f \in Failures : axiosReject(f))
       /\ UNCHANGED <<inflight, config, client, gateVars>>
  \/ ModuleReturn /\ UNCHANGED <<inflight, config, client>>
  \/ GateFinish /\ UNCHANGED <<inflight, config, client>>

SpecModules == InitGate /\ [][NextModules]_vars

(***************************************************************************)
(* Concurrent invocations on one instance                                  *)
(*                                                                         *)
(* The host may start an invocation while others await their outbound      *)
(* call; the awaited calls settle in any order.  Each invocation in flight *)
(* has its own locals, kept in inflight; the instance holds config, client.*)
(***************************************************************************)
\* the requestOptions, validation outcomes and failures of the interleaved
\* invocations
ConcurrentOptions == {Undefined, [t |-> "object", timeout |-> Num(10000)]}
ConcurrentResponses ==
  {r \in Responses : ~Nullish(r.data) /\ r.data.t = "object" /\ "success" \in DOMAIN r.data}
ConcurrentFailures ==
  {[t |-> "object", message |-> Str("timeout"), request |-> EmptyObject],
   LimitlyError(Str("upstream"), Num(429), Undefined)}
ConcurrentRequests ==
  {r \in MiddlewareRequests :
     /\ r.url = Undefined
     /\ r.headers.map \in {NoHeaders,
                           [k \in {"authorization"} |-> HStr(<<"Bearer ", "k1">>)],
                           [k \in {"authorization"} |-> HStr(<<"k1">>)]}}

\* the locals of an executor invocation awaiting its call
Awaiting(kind, gate, verb, endpoint, options, requestOptions) ==
  [kind |-> kind, gate |-> gate, pc |-> "awaiting",
   args |-> [verb |-> verb, endpoint |-> endpoint, options |-> options,
             requestOptions |-> requestOptions],
   sent |-> <<requestConfig(client, endpoint, options, requestOptions)>>,
   settled |-> NotSettled, result |-> Undefined, trace |-> <<>>, out |-> NotSettled]

\* the locals of a gate invocation that ended as st without an outbound call
Ended(gate, st) ==
  [kind |-> "middleware", gate |-> gate, pc |-> "done", args |-> NoArgs,
   sent |-> <<>>, settled |-> NotSettled, result |-> Undefined,
   trace |-> st.trace, out |-> Settle(st)]

\* startRequest keeping the timeout of the call on the instance
startRequestSharedTimeout(i, verb, endpoint, body, requestOptions) ==
  /\ inflight[i].pc = "idle"
  /\ inflight' = [inflight EXCEPT ![i] =
       Awaiting("executor", NoGate, verb, endpoint,
                IF verb = "post"
                THEN [t |-> "object", method |-> "POST", data |-> body]
                ELSE [t |-> "object", method |-> "GET"],
                requestOptions)]
  /\ client' = [client EXCEPT !.timeout = requestTimeout(client, requestOptions)]
  /\ UNCHANGED <<config, execVars, gateVars>>

\* an executor invocation starts while others are in flight: client.get or
\* client.post up to the await of makeRequest
startRequest(i, verb, endpoint, body, requestOptions) ==
  /\ inflight[i].pc = "idle"
  /\ inflight' = [inflight EXCEPT ![i] =
       Awaiting("executor", NoGate, verb, endpoint,
                IF verb = "post"
                THEN [t |-> "object", method |-> "POST", data |-> body]
                ELSE [t |-> "object", method |-> "GET"],
                requestOptions)]
  /\ UNCHANGED <<config, client, execVars, gateVars>>

\* a middleware invocation starts while others are in flight
startMiddleware(i, options, req, next) ==
  /\ inflight[i].pc = "idle"
  /\ LET gate == [adapter |-> "middleware", options |-> options, req |-> req,
                  next |-> next]
         apiKey == middlewareApiKey(options, req)
     IN inflight' = [inflight EXCEPT ![i] =
          IF ~Truthy(apiKey)
          THEN Ended(gate, mwCatch(mwNoKey(options, req, 0), options, 0))
          ELSE Awaiting("middleware", gate, "post", "/validate",
                        [t |-> "object", method |-> "POST",
                         data |-> [t |-> "object", api_key |-> Str(apiKey.v),
                                   endpoint |-> OrElse(Get(req, "url"), Get(req, "path")),
                                   method |-> Get(req, "method")]],
                        Undefined)]
  /\ UNCHANGED <<config, client, execVars, gateVars>>

\* the outbound call of invocation i settles: makeRequest returns or throws
settleCall(i, kind, value) ==
  /\ inflight[i].pc = "awaiting"
  /\ inflight' = [inflight EXCEPT ![i] =
       [@ EXCEPT !.settled = [kind |-> kind, value |-> value],
                 !.pc = IF kind = "resolve" THEN "returned" ELSE "thrown",
                 !.result = IF kind = "resolve" THEN onFulfilled(value).value
                            ELSE onRejected(value)]]
  /\ UNCHANGED <<config, client, execVars, gateVars>>

\* the middleware invocation i resumes after its await
resumeMiddleware(i, throwAt) ==
  /\ inflight[i].kind = "middleware"
  /\ inflight[i].pc \in {"returned", "thrown"}
  /\ LET c == inflight[i]
         st == mwCatch(mwValidated(c.gate.options, c.gate.next, c.pc, c.result, throwAt),
                       c.gate.options, 0)
     IN inflight' = [inflight EXCEPT ![i] =
          [@ EXCEPT !.pc = "done", !.trace = st.trace, !.out = Settle(st)]]
  /\ UNCHANGED <<config, client, execVars, gateVars>>

\* the caller of invocation i has consumed its outcome
finishCall(i) ==
  /\ \/ inflight[i].kind = "executor" /\ inflight[i].pc \in {"returned", "thrown"}
     \/ inflight[i].kind = "middleware" /\ inflight[i].pc = "done"
  /\ inflight' = [inflight EXCEPT ![i] = IdleCall]
  /\ UNCHANGED <<config, client, execVars, gateVars>>

NextConcurrent ==
  \/ \E i \in Slots, v \in {"get", "post"}, o \in ConcurrentOptions :
       startRequest(i, v, "/keys", [t |-> "object", name |-> Str("n")], o)
  \/ \E i \in Slots, r \in ConcurrentRequests :
       startMiddleware(i, Undefined, r, Function("next"))
  \/ \E i \in Slots, r \in ConcurrentResponses : settleCall(i, "resolve", r)
  \/ \E i \in Slots, f \in ConcurrentFailures : settleCall(i, "reject", f)
  \/ \E i \in Slots, t \in 0..1 : resumeMiddleware(i, t)
  \/ \E i \in Slots : finishCall(i)

SpecConcurrent == InitGate /\ [][NextConcurrent]_vars

(***************************************************************************)
(* Properties of the request executor                                      *)
(***************************************************************************)
InFlightOrDone == pc \in {"awaiting", "returned", "thrown"}

\* the rejection the catch block saw, when the call was rejected
Rejected == pc = "thrown" /\ settled.kind = "reject"

\* the rejection carries a response object (and is not already normalized)
RejectedWithResponse ==
  /\ Rejected
  /\ ~IsLimitlyError(settled.value)
  /\ ~Nullish(settled.value)
  /\ Truthy(Get(settled.value, "response"))

\* the rejection carries no response (and is not already normalized)
RejectedWithoutResponse ==
  /\ Rejected
  /\ ~IsLimitlyError(settled.value)
  /\ (Nullish(settled.value) \/ ~Truthy(Get(settled.value, "response")))

\* C1: every invocation of get/post/put/delete ends either by returning the
\* response payload or by throwing a LimitlyError, whatever the transport
\* did; no other kind of error reaches the caller.
C1_PayloadOrLimitlyError ==
  /\ pc = "returned" => settled.kind = "resolve" /\ result = settled.value.data
  /\ pc = "thrown" => settled.kind = "reject" /\ IsLimitlyError(result)

\* C2: a rejection with a response object is thrown as a LimitlyError whose
\* message is the body's error field when the body contains one and
\* "HTTP {status}: {statusText}" otherwise, whose statusCode is the response
\* status and whose response is the full response body.
C2_ResponseErrorShape ==
  RejectedWithResponse =>
    LET response == settled.value.response
        body == Get(response, "data")
        hasError == ~Nullish(body) /\ Get(body, "error") # Undefined
    IN /\ IsLimitlyError(result)
       /\ result.message =
            IF hasError THEN body.error
            ELSE Str("HTTP " \o ToString(response.status.v) \o ": "
                       \o response.statusText.v)
       /\ result.statusCode = response.status
       /\ result.response = body

\* C3: a rejection without a response is thrown as a LimitlyError with
\* statusCode 0: "Network error: <message>" with response
\* {originalError: <message>} when the failure carries a request, and
\* "Unknown error occurred" without a response body for any other failure.
C3_NoResponseErrorShape ==
  RejectedWithoutResponse =>
    /\ IsLimitlyError(result)
    /\ result.statusCode = Num(0)
    /\ IF ~Nullish(settled.value) /\ Truthy(Get(settled.value, "request"))
       THEN /\ result.message =
                 Str("Network error: " \o ToStr(Get(settled.value, "message")))
            /\ result.response =
                 [t |-> "object", originalError |-> Get(settled.value, "message")]
       ELSE /\ result.message = Str("Unknown error occurred")
            /\ result.response = Undefined

\* C4: a caught error that is already a LimitlyError is re-thrown unchanged
\* and never wrapped again, also when it carries response or request fields;
\* a thrown LimitlyError caught again by the executor stays the same error.
C4_LimitlyErrorRethrownUnchanged ==
  /\ (Rejected /\ IsLimitlyError(settled.value)) => result = settled.value
  /\ (pc = "thrown" /\ IsLimitlyError(result)) => onRejected(result) = result

\* C4 witness: an upstream LimitlyError carrying a response object was
\* caught and thrown
C4_Witness ==
  /\ Rejected
  /\ IsLimitlyError(settled.value)
  /\ Truthy(settled.value.response)
  /\ ~Nullish(Get(settled.value.response, "data"))
  /\ result.message = Str("upstream")

\* C5: one invocation issues exactly one outbound call, for every verb, path
\* and transport outcome: no retry and no call skipped.
C5_ExactlyOneOutboundCall ==
  /\ InFlightOrDone => Len(sent) = 1
  /\ pc = "idle" => Len(sent) = 0

\* C5 witness: a failed invocation with caching requested has made one call
C5_Witness ==
  /\ pc = "thrown"
  /\ Len(sent) = 1
  /\ args.verb = "delete"
  /\ Truthy(OptGet(args.requestOptions, "cache"))

\* C6: when the transport resolves, the executor returns the response body
\* unchanged, for every verb and body.
C6_ReturnsBodyUnchanged ==
  (pc \in {"returned", "thrown"} /\ settled.kind = "resolve") =>
    pc = "returned" /\ result = settled.value.data

\* C6 witness: a put returned an object body
C6_Witness ==
  /\ pc = "returned"
  /\ args.verb = "put"
  /\ result = [t |-> "object", success |-> Bool(TRUE)]

\* the per-call headers of the invocation in progress
PerCallHeaders == HeadersOf(OptGet(args.requestOptions, "headers"))

\* C7: every outbound call carries Authorization: "Bearer " + the credential
\* given at construction, for every verb and every requestOptions.
C7_AuthorizationIsCredential ==
  \A i \in DOMAIN sent :
    /\ "Authorization" \in DOMAIN sent[i].headers
    /\ sent[i].headers["Authorization"] = "Bearer " \o config.apiKey.v

\* C7 as amended: every outbound call carries an Authorization header; its
\* value is "Bearer " + the credential given at construction unless the
\* per-call headers contain an Authorization key, whose value is sent then.
C7_AuthorizationUnlessOverridden ==
  \A i \in DOMAIN sent :
    /\ "Authorization" \in DOMAIN sent[i].headers
    /\ sent[i].headers["Authorization"] =
         IF "Authorization" \in DOMAIN PerCallHeaders
         THEN PerCallHeaders["Authorization"]
         ELSE "Bearer " \o config.apiKey.v

\* C7 witness: a call without a per-call Authorization carried the credential
C7_Witness ==
  /\ Len(sent) = 1
  /\ args.verb = "post"
  /\ "X-Trace" \in DOMAIN PerCallHeaders
  /\ "Authorization" \notin DOMAIN PerCallHeaders
  /\ sent[1].headers["Authorization"] = "Bearer other_key"

\* C8: the outbound headers are the defaults overlaid by the per-call
\* headers (the verbs add none): a per-call value wins on a collision and
\* every other key keeps its default.
C8_HeaderMerge ==
  \A i \in DOMAIN sent :
    /\ DOMAIN sent[i].headers =
         {"Authorization", "Content-Type"} \cup DOMAIN PerCallHeaders
    /\ \A k \in DOMAIN sent[i].headers :
         sent[i].headers[k] =
           IF k \in DOMAIN PerCallHeaders THEN PerCallHeaders[k]
           ELSE IF k = "Content-Type" THEN "application/json"
           ELSE "Bearer " \o config.apiKey.v

\* C8 witness: a per-call Content-Type replaced the default
C8_Witness ==
  /\ Len(sent) = 1
  /\ "Content-Type" \in DOMAIN PerCallHeaders
  /\ sent[1].headers["Content-Type"] = "text/plain"
  /\ sent[1].headers["Authorization"] = "Bearer test_api_key"

\* C9: the outbound timeout is requestOptions.timeout whenever the caller
\* supplied one (0 included) and the configuration timeout otherwise, which
\* is the constructor's value when given and 30000 when omitted.
C9_TimeoutResolution ==
  \A i \in DOMAIN sent :
    LET supplied == OptGet(args.requestOptions, "timeout")
        configured == IF config.timeout # Undefined THEN config.timeout.v
                      ELSE 30000
    IN sent[i].timeout = IF supplied # Undefined THEN supplied.v ELSE configured

(***************************************************************************)
(* Properties of the request gate                                          *)
(***************************************************************************)
\* the credential the adapter invoked extracts from its request
GateApiKey ==
  IF gargs.adapter = "middleware"
  THEN middlewareApiKey(gargs.options, gargs.req)
  ELSE withRateLimitApiKey(gargs.options, gargs.request)

\* the gate invocation is over and found no credential
DoneWithoutCredential ==
  gpc = "done" /\ ~Truthy(GateApiKey)

\* the calls made with the given operations, in order
CallsOf(ops) == SelectSeq(trace, LAMBDA ev : ev.op \in ops)

\* every call made to the response object returned normally
ResponseObjectWorked ==
  \A k \in DOMAIN trace :
    trace[k].op \in {"res.status", "res.json"} => ~trace[k].threw

\* C10: in both adapters, when no credential can be resolved from the
\* request headers, the outcome is a 401 response with body
\* {error: "API Key required"}, no outbound call is made and the
\* continuation / wrapped handler is not invoked; the middleware first
\* invokes onValidationError, if provided.  (Stated for a response object
\* whose status and json operations work.)
C10_MissingCredentialIs401 ==
  (DoneWithoutCredential /\ ResponseObjectWorked) =>
    /\ Len(sent) = 0
    /\ CallsOf({"next", "handler"}) = <<>>
    /\ gout.kind = "resolved"
    /\ gargs.adapter = "withRateLimit" =>
         /\ gout.value = ResponseJson(ApiKeyRequiredBody, 401)
         /\ trace = <<>>
    /\ gargs.adapter = "middleware" =>
         /\ CallsOf({"res.status", "res.json"}) =
              <<ResStatus(401), ResJson(ApiKeyRequiredBody)>>
         /\ IF Truthy(OptGet(gargs.options, "onValidationError"))
            THEN /\ Len(trace) = 3
                 /\ trace[1].op = "onValidationError"
                 /\ trace[1].error = Error("API Key required")
            ELSE Len(trace) = 2

\* the gate invocation is over and its validate call resolved with a payload
\* that is an outcome (not null or undefined)
DoneValidated ==
  gpc = "done" /\ pc = "returned" /\ ~Nullish(result)

DoneAllowed == DoneValidated /\ Truthy(Get(result, "success"))
DoneNotAllowed == DoneValidated /\ ~Truthy(Get(result, "success"))

\* the gate invocation is over and its validate call failed
DoneValidateFailed == gpc = "done" /\ pc = "thrown"

IsMiddleware == gargs.adapter = "middleware"
IsWithRateLimit == gargs.adapter = "withRateLimit"

\* every call the gate made returned normally
AllCallsReturned == \A k \in DOMAIN trace : ~trace[k].threw

\* the position of the first call that raised
FirstThrow == CHOOSE k \in DOMAIN trace : trace[k].threw /\ \A j \in 1..(k - 1) : ~trace[j].threw

\* the calls of the 429 answer of the middleware
Mw429Calls ==
  IfSupplied(OptGet(gargs.options, "onRateLimitExceeded"), Called("onRateLimitExceeded"))
  \o <<ResStatus(429), ResJson(RateLimitBody(Get(result, "details")))>>

\* the catch block of the middleware starts at position k of the trace with
\* the error e: onValidationError(e) if supplied, else res.status(500)
MwCatchStartsAt(k, e) ==
  /\ k \in DOMAIN trace
  /\ IF Truthy(OptGet(gargs.options, "onValidationError"))
     THEN trace[k].op = "onValidationError" /\ trace[k].error = e
     ELSE trace[k].op = "res.status" /\ trace[k].code = 500

\* C11: in the middleware, when validate resolves with an outcome that is not
\* allowed, the gate invokes onRateLimitExceeded if provided and then responds
\* 429 with {error: "Rate limit exceeded", details: D}, D the details of the
\* outcome; the continuation is not invoked.
C11_NotAllowedIs429 ==
  (IsMiddleware /\ DoneNotAllowed /\ ResponseObjectWorked) =>
    /\ trace = Mw429Calls
    /\ gout.kind = "resolved"

\* C11 as amended: the continuation is never invoked; when the hook and the
\* response operations return normally the calls are exactly the hook (if
\* provided), res.status(429) and res.json with the details of the outcome;
\* when one of them raises, the calls up to it are those and the catch block
\* takes over with the raised error.
C11_NotAllowedIs429UnlessRaise ==
  (IsMiddleware /\ DoneNotAllowed) =>
    /\ CallsOf({"next"}) = <<>>
    /\ AllCallsReturned => trace = Mw429Calls /\ gout.kind = "resolved"
    /\ ~AllCallsReturned =>
         /\ FirstThrow <= Len(Mw429Calls)
         /\ \A k \in 1..FirstThrow : trace[k].op = Mw429Calls[k].op
         /\ MwCatchStartsAt(FirstThrow + 1, CallbackError(trace[FirstThrow].op))

\* C11 witness: the hook was called, then 429 was sent with the details
C11_Witness ==
  /\ IsMiddleware /\ DoneNotAllowed
  /\ Len(trace) = 3
  /\ trace[1] = Called("onRateLimitExceeded")
  /\ trace[2] = ResStatus(429)
  /\ trace[3].op = "res.json"
  /\ trace[3].body.details = [t |-> "object", current_usage |-> Num(100), limit |-> Num(100)]

\* the responses the gate itself produced: calls to the response object in
\* the middleware, a Response built by the gate in withRateLimit
GateResponded ==
  \/ CallsOf({"res.status", "res.json"}) # <<>>
  \/ /\ IsWithRateLimit
     /\ gout.kind = "resolved"
     /\ gout.value \in {ResponseJson(ApiKeyRequiredBody, 401),
                        ResponseJson(ValidationErrorBody, 500),
                        ResponseJson(RateLimitBody(Get(result, "details")), 429)}

\* the continuation or handler the gate delegates to was supplied
DelegateSupplied == IsWithRateLimit \/ Truthy(gargs.next)

\* C12: in both adapters, when a credential is present and validate resolves
\* with an allowed outcome, the continuation / wrapped handler is invoked
\* exactly once and the gate synthesizes no response of its own, whatever
\* the continuation or handler does, raising an error included.
C12_AllowedDelegatesOnce ==
  (DoneAllowed /\ DelegateSupplied) =>
    /\ Len(CallsOf({"next", "handler"})) = 1
    /\ ~GateResponded

\* C13: the function returned by createMiddleware lets no error escape: for
\* every request, validation outcome or failure and every behaviour of the
\* hooks, the continuation and the response object, its promise resolves.
C13_MiddlewareNeverRejects ==
  (IsMiddleware /\ gpc = "done") => gout.kind = "resolved"

\* C14: in both adapters, when validate fails with any error, the gate
\* responds 500 {error: "Validation error"} (never 429 or 401), does not
\* invoke the continuation / handler and does not propagate the error to its
\* caller; the middleware first invokes onValidationError with that error,
\* if provided.  (Stated for a response object whose operations work.)
C14_ValidateFailureIs500 ==
  (DoneValidateFailed /\ ResponseObjectWorked) =>
    /\ CallsOf({"next", "handler"}) = <<>>
    /\ gout.kind = "resolved"
    /\ IsWithRateLimit => gout.value = ResponseJson(ValidationErrorBody, 500)
    /\ IsMiddleware =>
         /\ CallsOf({"res.status", "res.json"}) =
              <<ResStatus(500), ResJson(ValidationErrorBody)>>
         /\ IF Truthy(OptGet(gargs.options, "onValidationError"))
            THEN /\ Len(trace) = 3
                 /\ trace[1].op = "onValidationError"
                 /\ trace[1].error = result
            ELSE Len(trace) = 2

\* the call of the route handler, when the gate delegated
HandlerCalls == CallsOf({"handler"})

\* C15: in withRateLimit, an error raised by the wrapped handler itself,
\* thrown synchronously or delivered as a rejected promise, is not caught by
\* the adapter: it reaches the caller unchanged and is never converted into
\* the 500 "Validation error" response.
C15_HandlerErrorsNotCaught ==
  (IsWithRateLimit /\ gpc = "done" /\ HandlerCalls # <<>>) =>
    /\ gout # [kind |-> "resolved", value |-> ResponseJson(ValidationErrorBody, 500)]
    /\ (HandlerCalls[1].threw \/ HandlerCalls[1].result.kind = "rejected") =>
         gout = [kind |-> "rejected", value |-> CallbackError("handler")]

\* C16: in withRateLimit, when validate resolves with an outcome that is not
\* allowed, the wrapped handler returns exactly the response the supplied
\* onRateLimitExceeded returns for the request, and without one a 429
\* response {error: "Rate limit exceeded", details}; handler is not invoked.
C16_NotAllowedOverrideOr429 ==
  (IsWithRateLimit /\ DoneNotAllowed) =>
    /\ HandlerCalls = <<>>
    /\ IF Truthy(OptGet(gargs.options, "onRateLimitExceeded"))
       THEN /\ Len(CallsOf({"onRateLimitExceeded"})) = 1
            /\ trace[1].op = "onRateLimitExceeded"
            /\ trace[1].request = gargs.request
            /\ ~trace[1].threw =>
                 gout = [kind |-> "resolved", value |-> trace[1].result]
       ELSE /\ trace = <<>>
            /\ gout = [kind |-> "resolved",
                       value |-> ResponseJson(RateLimitBody(Get(result, "details")), 429)]

\* C16 witness: the override producer answered and its response was returned
C16_Witness ==
  /\ IsWithRateLimit /\ DoneNotAllowed
  /\ Len(trace) = 1
  /\ trace[1].op = "onRateLimitExceeded"
  /\ ~trace[1].threw
  /\ gout.value = CustomResponse
  /\ Get(result, "details") # Undefined

\* C17: in withRateLimit, on an allowed outcome the handler is called with
\* the original request and the extra positional arguments, in order and
\* unchanged, and the wrapped handler's result is exactly the handler's.
C17_DelegationUnchanged ==
  (IsWithRateLimit /\ DoneAllowed) =>
    /\ Len(HandlerCalls) = 1
    /\ trace[1].op = "handler"
    /\ trace[1].request = gargs.request
    /\ trace[1].args = gargs.extra
    /\ ~trace[1].threw =>
         gout = [kind |-> trace[1].result.kind, value |-> trace[1].result.value]

\* C17 witness: the handler got the request and two extra arguments and its
\* response came back
C17_Witness ==
  /\ IsWithRateLimit /\ DoneAllowed
  /\ Len(trace) = 1
  /\ Len(trace[1].args) = 2
  /\ trace[1].args[2] = Str("second")
  /\ gout = [kind |-> "resolved", value |-> HandlerResponse]

\* the gate delegated to the continuation or to the handler
Delegated == CallsOf({"next", "handler"}) # <<>>

\* the status codes of the rejection responses the gate produced or started
Rejections ==
  {trace[k].code : k \in {j \in DOMAIN trace : trace[j].op = "res.status"}}
  \cup (IF IsWithRateLimit /\ gout.kind = "resolved" /\ gout.value.status \in {401, 429, 500}
        THEN {gout.value.status} ELSE {})

\* the invocation ended in ALLOW without anything to delegate to
AllowedWithoutContinuation == IsMiddleware /\ DoneAllowed /\ ~Truthy(gargs.next)

C18_ValidateAtMostOnce == gpc = "done" => Len(sent) <= 1
C18_AtMostOneRejection == gpc = "done" => Cardinality(Rejections) <= 1
C18_NotBothDelegateAndReject == gpc = "done" => ~(Delegated /\ Rejections # {})
C18_SomeTerminalState ==
  (gpc = "done" /\ ResponseObjectWorked) =>
    (Delegated \/ Rejections # {} \/ AllowedWithoutContinuation)

\* C18: each invocation of either adapter ends in exactly one of the
\* terminal states REJECT_401, REJECT_500, REJECT_429 and ALLOW; validate is
\* called at most once, and no invocation both delegates and produces a
\* rejection response, nor produces two different rejection responses.
C18_OneTerminalState ==
  /\ C18_ValidateAtMostOnce
  /\ C18_AtMostOneRejection
  /\ C18_NotBothDelegateAndReject
  /\ C18_SomeTerminalState

\* the header of the gate's request with the given name
GateHeader(name) ==
  IF IsMiddleware THEN headerOf(gargs.req, name) ELSE headersGet(gargs.request, name)

\* the header name the gate was configured with
ConfiguredHeader == apiKeyHeaderOf(gargs.options)

\* the credential validate was called with
ValidatedApiKey == sent[1].data.api_key

\* h without its leading "Bearer ", h itself when it does not start with it
PrefixStripped(h) ==
  IF h.pieces # <<>> /\ Head(h.pieces) = "Bearer " THEN HStr(Tail(h.pieces)) ELSE h

\* C19: credential extraction strips a literal "Bearer " prefix: the
\* credential is the header value h without its leading "Bearer " when h
\* starts with it, and the whole of h, unchanged, when it does not.
C19_StripsBearerPrefixOnly ==
  (gpc = "done" /\ Len(sent) = 1 /\ ConfiguredHeader = "authorization") =>
    ValidatedApiKey.v = PrefixStripped(GateHeader("authorization")).v

\* C20: the credential is read from the configured header whenever that
\* header is present on the request, and from the authorization header only
\* when the configured header is absent.
C20_ConfiguredHeaderWhenPresent ==
  (gpc = "done" /\ Len(sent) = 1) =>
    ValidatedApiKey.v =
      (IF ~Nullish(GateHeader(ConfiguredHeader))
       THEN replaceBearer(GateHeader(ConfiguredHeader))
       ELSE replaceBearer(GateHeader("authorization"))).v

\* the path of the gate's request: the path component of the URL, without
\* the query string
RequestPath ==
  IF IsMiddleware THEN Get(gargs.req, "path") ELSE pathname(gargs.request.url)

\* the method of the gate's request
RequestMethod ==
  IF IsMiddleware THEN Get(gargs.req, "method") ELSE gargs.request.method

\* C21: when a credential is resolved, the gate calls validate with exactly
\* (the extracted credential, the request's path, the request's method); in
\* withRateLimit the path is the URL's path component without the query
\* string, in the middleware it is the request path.
C21_ValidateArguments ==
  (gpc \in {"validating", "done"} /\ Truthy(GateApiKey)) =>
    /\ Len(sent) = 1
    /\ sent[1].data = [t |-> "object", api_key |-> Str(GateApiKey.v),
                       endpoint |-> RequestPath, method |-> RequestMethod]

(***************************************************************************)
(* Properties of the modules                                               *)
(***************************************************************************)
IsModuleCall == gargs.adapter = "module" /\ gpc \in {"calling", "done"}

\* the method returned what the HttpClient call returned or threw
ReturnedExecutorOutcome ==
  /\ pc = "returned" => gout = [kind |-> "resolved", value |-> result]
  /\ pc = "thrown" => gout = [kind |-> "rejected", value |-> result]

\* the body validateWithContext is meant to send for its arguments
ContextBody(p) ==
  IF Nullish(p[4])
  THEN [t |-> "object", api_key |-> p[1], endpoint |-> p[2], method |-> p[3]]
  ELSE [t |-> "object", api_key |-> p[1], endpoint |-> p[2], method |-> p[3],
        context |-> p[4]]

\* C22: validation.validate issues one POST to /validate whose body is
\* exactly {api_key, endpoint, method}; validateWithContext issues one POST to
\* /validate with the same fields plus context when a context is supplied and
\* no context field otherwise; both return the transport's response body.
C22_ValidationBodies ==
  (IsModuleCall /\ gargs.method \in {"validation.validate", "validation.validateWithContext"}) =>
    /\ Len(sent) = 1
    /\ sent[1].method = "POST"
    /\ sent[1].url = client.baseUrl \o "/validate"
    /\ sent[1].data =
         (IF gargs.method = "validation.validate"
          THEN [t |-> "object", api_key |-> gargs.params[1],
                endpoint |-> gargs.params[2], method |-> gargs.params[3]]
          ELSE ContextBody(gargs.params))
    /\ (gpc = "done" /\ settled.kind = "resolve") =>
         gout = [kind |-> "resolved", value |-> Get(settled.value, "data")]

\* C22 witness: validateWithContext was called without a context and returned
\* the response body
C22_Witness ==
  /\ IsModuleCall
  /\ gargs.method = "validation.validateWithContext"
  /\ gargs.params[4] = Undefined
  /\ gpc = "done"
  /\ gout.kind = "resolved"
  /\ gout.value = [t |-> "object", success |-> Bool(TRUE)]

\* the resource modules' methods
ResourceMethods ==
  {"apiKeys.list", "apiKeys.create", "apiKeys.get", "apiKeys.update",
   "apiKeys.delete", "apiKeys.regenerate", "apiKeys.getUsage",
   "apiKeys.getRequests", "apiKeys.listWithUsage",
   "plans.list", "plans.create", "plans.get", "plans.update", "plans.delete",
   "plans.getUsage", "plans.getUsers", "plans.getKeys", "plans.listWithUsage",
   "users.list", "users.create", "users.get", "users.update", "users.delete",
   "users.getUsage", "users.getKeys", "users.createKey", "users.listWithUsage"}

Mapped(verb, path, body) == [verb |-> verb, path |-> path, body |-> body]

\* the verb, path and body the method m maps to for the arguments p
MappedRequest(m, p) ==
  CASE m = "apiKeys.list" -> Mapped("GET", "/keys", Undefined)
    [] m = "apiKeys.create" -> Mapped("POST", "/keys", p[1])
    [] m = "apiKeys.get" -> Mapped("GET", "/keys/" \o p[1].v, Undefined)
    [] m = "apiKeys.update" -> Mapped("PUT", "/keys/" \o p[1].v, p[2])
    [] m = "apiKeys.delete" -> Mapped("DELETE", "/keys/" \o p[1].v, Undefined)
    [] m = "apiKeys.regenerate" ->
         Mapped("POST", "/keys/" \o p[1].v \o "/regenerate", Undefined)
    [] m = "apiKeys.getUsage" -> Mapped("GET", "/keys/" \o p[1].v \o "/usage", Undefined)
    [] m = "apiKeys.getRequests" ->
         Mapped("GET", "/keys/" \o p[1].v \o "/requests", Undefined)
    [] m = "apiKeys.listWithUsage" -> Mapped("GET", "/keys/with-usage", Undefined)
    [] m = "plans.list" -> Mapped("GET", "/plans", Undefined)
    [] m = "plans.create" -> Mapped("POST", "/plans", p[1])
    [] m = "plans.get" -> Mapped("GET", "/plans/" \o p[1].v, Undefined)
    [] m = "plans.update" -> Mapped("PUT", "/plans/" \o p[1].v, p[2])
    [] m = "plans.delete" -> Mapped("DELETE", "/plans/" \o p[1].v, Undefined)
    [] m = "plans.getUsage" -> Mapped("GET", "/plans/" \o p[1].v \o "/usage", Undefined)
    [] m = "plans.getUsers" -> Mapped("GET", "/plans/" \o p[1].v \o "/users", Undefined)
    [] m = "plans.getKeys" -> Mapped("GET", "/plans/" \o p[1].v \o "/keys", Undefined)
    [] m = "plans.listWithUsage" -> Mapped("GET", "/plans/with-usage", Undefined)
    [] m = "users.list" -> Mapped("GET", "/users", Undefined)
    [] m = "users.create" -> Mapped("POST", "/users", p[1])
    [] m = "users.get" -> Mapped("GET", "/users/" \o ToString(p[1].v), Undefined)
    [] m = "users.update" -> Mapped("PUT", "/users/" \o ToString(p[1].v), p[2])
    [] m = "users.delete" -> Mapped("DELETE", "/users/" \o ToString(p[1].v), Undefined)
    [] m = "users.getUsage" ->
         Mapped("GET", "/users/" \o ToString(p[1].v) \o "/usage", Undefined)
    [] m = "users.getKeys" ->
         Mapped("GET", "/users/" \o ToString(p[1].v) \o "/keys", Undefined)
    [] m = "users.createKey" ->
         Mapped("POST", "/users/" \o ToString(p[1].v) \o "/keys", p[2])
    [] m = "users.listWithUsage" -> Mapped("GET", "/users/with-usage", Undefined)

\* the options the method was called with: its last argument
OptionsGiven == gargs.params[Len(gargs.params)]

\* C23: every method of the resource modules performs exactly one executor
\* call with the verb, path and body the method maps to, returns the
\* executor's payload unchanged and lets an error thrown by the executor
\* propagate unchanged to its caller.
C23_ResourceMethodsDelegate ==
  (IsModuleCall /\ gargs.method \in ResourceMethods) =>
    LET m == MappedRequest(gargs.method, gargs.params)
    IN /\ Len(sent) = 1
       /\ sent[1] = requestConfig(client, m.path,
                                  [t |-> "object", method |-> m.verb, data |-> m.body],
                                  OptionsGiven)
       /\ args.endpoint = m.path
       /\ gpc = "done" => ReturnedExecutorOutcome

\* C23 witness: apiKeys.update ended with the LimitlyError of the executor
C23_Witness ==
  /\ IsModuleCall
  /\ gargs.method = "apiKeys.update"
  /\ gpc = "done"
  /\ pc = "thrown"
  /\ IsLimitlyError(result)
  /\ gout = [kind |-> "rejected", value |-> result]

(***************************************************************************)
(* Properties of the cache hints and of the state of an instance           *)
(***************************************************************************)
\* the object o without its cache and revalidate fields
WithoutCacheFlags(o) ==
  IF Nullish(o) THEN o
  ELSE [k \in (DOMAIN o) \ {"cache", "revalidate"} |-> o[k]]

InFlight == {i \in Slots : inflight[i].pc # "idle"}

\* the request an invocation sent is the one its own arguments give under
\* the configuration of construction
OwnRequest(c) ==
  c.sent # <<>> =>
    /\ c.sent = <<requestConfig(HttpClient(config), c.args.endpoint, c.args.options,
                                c.args.requestOptions)>>
    /\ c.kind = "middleware" =>
         c.args.options.data.api_key = Str(middlewareApiKey(c.gate.options, c.gate.req).v)

\* the result of an invocation is the one its own transport outcome gives
OwnResult(c) ==
  /\ c.settled.kind = "resolve" => c.result = onFulfilled(c.settled.value).value
  /\ c.settled.kind = "reject" => c.result = onRejected(c.settled.value)

\* the response of a gate invocation and whether its continuation ran are
\* the ones its own request and its own validation outcome give
OwnDecision(c) ==
  (c.kind = "middleware" /\ c.pc = "done") =>
    IF c.sent = <<>>
    THEN /\ ~Truthy(middlewareApiKey(c.gate.options, c.gate.req))
         /\ c.trace = <<ResStatus(401), ResJson(ApiKeyRequiredBody)>>
    ELSE \E t \in 0..1 :
           LET st == mwCatch(mwValidated(c.gate.options, c.gate.next,
                                         IF c.settled.kind = "resolve" THEN "returned"
                                         ELSE "thrown",
                                         c.result, t),
                             c.gate.options, 0)
           IN c.trace = st.trace /\ c.out = Settle(st)

Independent ==
  /\ client = HttpClient(config)
  /\ \A i \in InFlight : OwnRequest(inflight[i]) /\ OwnResult(inflight[i]) /\ OwnDecision(inflight[i])

\* a step of one invocation leaves the locals of every other invocation and
\* the configuration alone
StepsOneInvocation ==
  /\ config' = config
  /\ client' = client
  /\ Cardinality({i \in Slots : inflight'[i] # inflight[i]}) <= 1

\* C25: invocations are independent under any interleaving: with several
\* executor or gate invocations in flight on one instance, settling in any
\* order, the outcome of each (the request it sent, its result, its response
\* and whether its continuation runs) depends only on its own request and
\* transport outcome, and the client configuration is in every reachable
\* state the one of construction.
C25_InvocationsIndependent == []Independent /\ [][StepsOneInvocation]_vars

\* C25 witness: two invocations are in flight; the one started first is
\* still awaiting while the other was answered 429
C25_Witness ==
  /\ inflight[1].kind = "executor" /\ inflight[1].pc = "awaiting"
  /\ inflight[1].args.requestOptions # Undefined
  /\ inflight[2].kind = "middleware" /\ inflight[2].pc = "done"
  /\ inflight[2].trace = <<ResStatus(429),
                        ResJson(RateLimitBody(Get(inflight[2].result, "details")))>>

\* C26: in one invocation of the middleware, the onValidationError hook is
\* invoked at most once and the response object receives at most one
\* status/JSON response from the gate, for every request and every behaviour
\* of the hooks and of the response object.
C26_OneHookCallOneResponse ==
  (IsMiddleware /\ gpc = "done") =>
    /\ Len(CallsOf({"onValidationError"})) <= 1
    /\ Len(CallsOf({"res.status"})) <= 1
    /\ Len(CallsOf({"res.json"})) <= 1

====
